---- MODULE Spec2Model ----
(***************************************************************************)
(* A model of kazumidiparser-core (crates/kazumidiparser-core/src/lib.rs): *)
(* the MidiParser instance, parse_file with its parallel per-track decode, *)
(* parse_track byte by byte, the tempo timeline and the tick-to-nanosecond *)
(* conversion.                                                             *)
(*                                                                         *)
(* Machine integers wider than TLC's own are kept as little-endian         *)
(* sequences of bytes (u32: 4 bytes, u64 and usize: 8 bytes), so that      *)
(* wrap-around and overflow are those of the real widths.                  *)
(***************************************************************************)
EXTENDS Integers, Sequences, FiniteSets, TLC

\* ------------------------------------------------------------------------
\* Fixed-width unsigned arithmetic on little-endian byte sequences
\* ------------------------------------------------------------------------

Byte == 0..255

\* The low w bytes of the natural number n (n as u32 / n as u64 of a small value).
RECURSIVE LimbsOf(_, _)
LimbsOf(n, w) ==
    IF w = 0 THEN <<>> ELSE <<n % 256>> \o LimbsOf(n \div 256, w - 1)

u32(n) == LimbsOf(n, 4)
u64(n) == LimbsOf(n, 8)

\* `x as u64` of a u32 x: zero extension.
AsU64(x) == x \o LimbsOf(0, 8 - Len(x))

\* The value of a byte sequence as a TLC integer; only for values below 2^31.
RECURSIVE NatOf(_)
NatOf(a) == IF a = <<>> THEN 0 ELSE Head(a) + 256 * NatOf(Tail(a))

\* Whether the value of a is below 2^24, hence safe for NatOf.
IsSmall(a) == \A i \in 1..Len(a) : i > 3 => a[i] = 0

\* a + b + c on equal-length sequences: Len(a) bytes and then the carry out.
RECURSIVE AddLimbs(_, _, _)
AddLimbs(a, b, c) ==
    IF a = <<>> THEN <<c>>
    ELSE LET s == Head(a) + Head(b) + c
         IN  <<s % 256>> \o AddLimbs(Tail(a), Tail(b), s \div 256)

\* a - b - c on equal-length sequences: Len(a) bytes and then the borrow out.
RECURSIVE SubLimbs(_, _, _)
SubLimbs(a, b, c) ==
    IF a = <<>> THEN <<c>>
    ELSE LET s == Head(a) - Head(b) - c
         IN  IF s < 0 THEN <<s + 256>> \o SubLimbs(Tail(a), Tail(b), 1)
                      ELSE <<s>> \o SubLimbs(Tail(a), Tail(b), 0)

\* a * d + c for a byte d: Len(a) bytes and then the carry out.
RECURSIVE MulByte(_, _, _)
MulByte(a, d, c) ==
    IF a = <<>> THEN <<c>>
    ELSE LET p == Head(a) * d + c
         IN  <<p % 256>> \o MulByte(Tail(a), d, p \div 256)

\* The full product a * b, Len(a) + Len(b) bytes.
RECURSIVE MulLimbs(_, _)
MulLimbs(a, b) ==
    IF b = <<>> THEN [i \in 1..Len(a) |-> 0]
    ELSE LET rest == <<0>> \o MulLimbs(a, Tail(b))
             part == MulByte(a, Head(b), 0) \o [i \in 1..(Len(b) - 1) |-> 0]
             sum  == AddLimbs(part, rest, 0)
         IN  SubSeq(sum, 1, Len(a) + Len(b))

\* a / d and a % d for a divisor 0 < d < 2^16.
RECURSIVE DivSmall(_, _)
DivSmall(a, d) ==
    IF a = <<>> THEN [q |-> <<>>, r |-> 0]
    ELSE LET hi  == DivSmall(Tail(a), d)
             cur == hi.r * 256 + Head(a)
         IN  [q |-> <<cur \div d>> \o hi.q, r |-> cur % d]

\* a < b, a <= b on equal-length sequences.
RECURSIVE LtLimbs(_, _)
LtLimbs(a, b) ==
    IF a = <<>> THEN FALSE
    ELSE LET n == Len(a)
         IN  \/ a[n] < b[n]
             \/ a[n] = b[n] /\ LtLimbs(SubSeq(a, 1, n - 1), SubSeq(b, 1, n - 1))

LeLimbs(a, b) == a = b \/ LtLimbs(a, b)

\* The machine operations: the wrapped value and whether the exact result
\* did not fit (a panic where overflow checks are compiled in, a silent wrap
\* where they are not).
Add64(a, b) ==
    LET r == AddLimbs(a, b, 0) IN [val |-> SubSeq(r, 1, 8), ovf |-> r[9] # 0]

Sub64(a, b) ==
    LET r == SubLimbs(a, b, 0) IN [val |-> SubSeq(r, 1, 8), ovf |-> r[9] # 0]

Mul64(a, b) ==
    LET r == MulLimbs(a, b)
    IN  [val |-> SubSeq(r, 1, 8), ovf |-> \E i \in 9..16 : r[i] # 0]

\* (x << 7) | low7 at the width of x: the bits shifted out at the top are
\* lost without any check (a shift by 7 never panics).
Shl7Or(x, low7) ==
    [i \in 1..Len(x) |->
        (x[i] % 2) * 128 + (IF i = 1 THEN low7 ELSE x[i - 1] \div 2)]

\* ------------------------------------------------------------------------
\* parse_track: one track chunk's bytes to tick-stamped intermediate events
\* ------------------------------------------------------------------------

\* Option<u8>: <<>> is None, <<s>> is Some(s).
None == <<>>
Some(s) == <<s>>

\* track_data[i] for a 0-based index i.
At(data, i) == data[i + 1]

\* TempEventData.
MidiData(status, data1, data2) ==
    [kind |-> "Midi", status |-> status, data1 |-> data1, data2 |-> data2,
     new_tempo_us |-> 0, data |-> <<>>]
TempoChangeData(new_tempo_us) ==
    [kind |-> "TempoChange", status |-> 0, data1 |-> 0, data2 |-> 0,
     new_tempo_us |-> new_tempo_us, data |-> <<>>]
SysExData(bytes) ==
    [kind |-> "SysEx", status |-> 0, data1 |-> 0, data2 |-> 0,
     new_tempo_us |-> 0, data |-> bytes]

TempEvent(absolute_tick, track_index, data) ==
    [absolute_tick |-> absolute_tick, track_index |-> track_index, data |-> data]

\* The variable-length-quantity loops: bytes are taken while the index is
\* inside the buffer, up to and including the first byte with the high bit
\* clear; the accumulator keeps the width it was declared with.
RECURSIVE ReadVlq(_, _, _)
ReadVlq(data, index, acc) ==
    IF index >= Len(data) THEN [val |-> acc, index |-> index]
    ELSE LET byte == At(data, index)
             next == Shl7Or(acc, byte % 128)
         IN  IF byte < 128 THEN [val |-> next, index |-> index + 1]
                           ELSE ReadVlq(data, index + 1, next)

\* A SysEx loop that consumes the 0xF7 terminator without storing it.
RECURSIVE ReadSysExNoTerminator(_, _, _)
ReadSysExNoTerminator(data, index, acc) ==
    IF index >= Len(data) THEN [data |-> acc, index |-> index]
    ELSE LET byte == At(data, index)
         IN  IF byte = 247 THEN [data |-> acc, index |-> index + 1]
                           ELSE ReadSysExNoTerminator(data, index + 1, Append(acc, byte))

\* The SysEx loop: bytes up to and including the first 0xF7, or to the end.
RECURSIVE ReadSysEx(_, _, _)
ReadSysEx(data, index, acc) ==
    IF index >= Len(data) THEN [data |-> acc, index |-> index]
    ELSE LET byte == At(data, index)
         IN  IF byte = 247 THEN [data |-> Append(acc, byte), index |-> index + 1]
                           ELSE ReadSysEx(data, index + 1, Append(acc, byte))

\* status & 0xF0
HighNibble(status) == (status \div 16) * 16

\* The locals of parse_track at the head of its outer loop.
TrackStart(track_index, track_data) ==
    [track_index   |-> track_index,
     data          |-> track_data,
     index         |-> 0,
     last_status   |-> None,
     absolute_tick |-> u64(0),
     track_events  |-> <<>>,
     at            |-> "loop",
     seen          |-> {}]

\* Leaving the loop: "ok" is a break or the loop condition failing (Ok is
\* returned), "err" the early return of Err, "panic" an arithmetic overflow
\* caught by overflow checks.
Leave(st, how) == [st EXCEPT !.at = how]

\* A meta event arm that takes type 0x2F as the end of the track and type
\* 0x51 as a tempo change whatever length they declare.
MetaArmAnyLength(st, index, checks) ==
    LET data == st.data
    IN  IF index + 1 > Len(data) THEN Leave(st, "ok")
        ELSE
        LET meta_type == At(data, index)
            len       == ReadVlq(data, index + 1, u64(0))
            length    == len.val
            stop      == Add64(u64(len.index), length)
        IN  IF stop.ovf /\ checks THEN Leave(st, "panic")
            ELSE IF LtLimbs(u64(Len(data)), stop.val) THEN Leave(st, "ok")
            ELSE IF meta_type = 81 /\ LeLimbs(u64(3), length)
            THEN LET new_tempo_us == At(data, len.index) * 65536
                                     + At(data, len.index + 1) * 256
                                     + At(data, len.index + 2)
                 IN  [st EXCEPT !.track_events =
                                    Append(@, TempEvent(st.absolute_tick, st.track_index,
                                                        TempoChangeData(new_tempo_us))),
                                !.index = NatOf(stop.val)]
            ELSE IF meta_type = 47 THEN Leave(st, "ok")
            ELSE [st EXCEPT !.index = NatOf(stop.val)]

\* The meta event arm (status 0xFF), index standing after the status byte.
MetaArm(st, index, checks) ==
    LET data == st.data
    IN  IF index + 1 > Len(data) THEN Leave(st, "ok")
        ELSE
        LET meta_type == At(data, index)
            len       == ReadVlq(data, index + 1, u64(0))
            length    == len.val
            stop      == Add64(u64(len.index), length)
        IN  IF stop.ovf /\ checks THEN Leave(st, "panic")
            ELSE IF LtLimbs(u64(Len(data)), stop.val) THEN Leave(st, "ok")
            ELSE IF meta_type = 81 /\ length = u64(3)
            THEN LET new_tempo_us == At(data, len.index) * 65536
                                     + At(data, len.index + 1) * 256
                                     + At(data, len.index + 2)
                 IN  [st EXCEPT !.track_events =
                                    Append(@, TempEvent(st.absolute_tick, st.track_index,
                                                        TempoChangeData(new_tempo_us))),
                                !.index = NatOf(stop.val)]
            ELSE IF meta_type = 47 /\ length = u64(0) THEN Leave(st, "ok")
            ELSE [st EXCEPT !.index = NatOf(stop.val)]

\* The SysEx arm (status 0xF0).
SysExArm(st, index) ==
    LET r == ReadSysEx(st.data, index, <<>>)
    IN  [st EXCEPT !.track_events =
                       Append(@, TempEvent(st.absolute_tick, st.track_index,
                                           SysExData(r.data))),
                   !.index = r.index]

\* A channel message arm that reads two data bytes after every status.
ChannelArmTwoBytes(st, index, status) ==
    LET data == st.data
    IN  IF index >= Len(data) THEN Leave(st, "ok")
        ELSE IF index + 1 >= Len(data) THEN Leave([st EXCEPT !.index = index + 1], "ok")
        ELSE [st EXCEPT !.track_events =
                            Append(@, TempEvent(st.absolute_tick, st.track_index,
                                                MidiData(status, At(data, index),
                                                         At(data, index + 1)))),
                        !.index = index + 2]

\* The channel message arm (status & 0xF0 != 0xF0): data1, then data2 unless
\* the high nibble is 0xC0 or 0xD0; the buffer ending before either is a
\* break (data1, when read, stays consumed).
ChannelArm(st, index, status) ==
    LET data == st.data
    IN  IF index >= Len(data) THEN Leave(st, "ok")
        ELSE
        LET data1 == At(data, index)
            two   == HighNibble(status) # 192 /\ HighNibble(status) # 208
        IN  IF two /\ index + 1 >= Len(data)
            THEN Leave([st EXCEPT !.index = index + 1], "ok")
            ELSE LET data2 == IF two THEN At(data, index + 1) ELSE 0
                 IN  [st EXCEPT !.track_events =
                                    Append(@, TempEvent(st.absolute_tick, st.track_index,
                                                        MidiData(status, data1, data2))),
                                !.index = IF two THEN index + 2 ELSE index + 1]

\* The last arm: any other 0xF* status skips one byte if there is one.
OtherArm(st, index) ==
    [st EXCEPT !.index = IF index < Len(st.data) THEN index + 1 ELSE index]

\* The dispatch on the resolved status byte.
Dispatch(st, index, status, checks) ==
    IF status = 255 THEN MetaArm(st, index, checks)
    ELSE IF status = 240 THEN SysExArm(st, index)
    ELSE IF HighNibble(status) # 240 THEN ChannelArm(st, index, status)
    ELSE OtherArm(st, index)

\* A decoder without the running-status check: with nothing remembered the
\* data byte is itself taken as the status.
ResolveStatusUnchecked(st, index) ==
    LET status == At(st.data, index)
    IN  IF status >= 128
        THEN [ok |-> TRUE, status |-> status, index |-> index + 1,
              last_status |-> Some(status)]
        ELSE [ok |-> TRUE,
              status |-> IF st.last_status # None THEN st.last_status[1] ELSE status,
              index |-> index, last_status |-> st.last_status]

\* Status byte and running status: an explicit status (high bit set) is
\* consumed and remembered; otherwise the remembered one is used and the
\* byte is left for the arm to read; with nothing remembered, Err.
ResolveStatus(st, index) ==
    LET status == At(st.data, index)
    IN  IF status >= 128
        THEN [ok |-> TRUE, status |-> status, index |-> index + 1,
              last_status |-> Some(status)]
        ELSE IF st.last_status # None
        THEN [ok |-> TRUE, status |-> st.last_status[1], index |-> index,
              last_status |-> st.last_status]
        ELSE [ok |-> FALSE, status |-> status, index |-> index,
              last_status |-> st.last_status]

\* One pass of the outer loop `while index < track_data.len()`. A loop head
\* met again with the same index and running status is a loop that never
\* ends: what the loop does from a head depends on nothing else.
TrackIter(st, checks) ==
    IF st.index >= Len(st.data) THEN Leave(st, "ok")
    ELSE IF <<st.index, st.last_status>> \in st.seen THEN Leave(st, "hang")
    ELSE
    LET delta == ReadVlq(st.data, st.index, u32(0))
        tick  == Add64(st.absolute_tick, AsU64(delta.val))
        s1    == [st EXCEPT !.absolute_tick = tick.val,
                            !.index = delta.index,
                            !.seen = @ \cup {<<st.index, st.last_status>>}]
    IN  IF tick.ovf /\ checks THEN Leave(st, "panic")
        ELSE IF delta.index >= Len(st.data) THEN Leave(s1, "ok")
        ELSE LET rs == ResolveStatus(s1, delta.index)
                 s2 == [s1 EXCEPT !.last_status = rs.last_status,
                                  !.index = rs.index]
             IN  IF ~rs.ok THEN Leave(s1, "err")
                 ELSE Dispatch(s2, rs.index, rs.status, checks)

RECURSIVE TrackLoop(_, _)
TrackLoop(st, checks) ==
    IF st.at # "loop" THEN st ELSE TrackLoop(TrackIter(st, checks), checks)

\* What a call of parse_track comes to: Ok(track_events), Err (the message
\* names the track), a panic, or no return at all.
parse_track(track_index, track_data, checks) ==
    LET st == TrackLoop(TrackStart(track_index, track_data), checks)
    IN  [kind   |-> st.at,
         events |-> IF st.at = "ok" THEN st.track_events ELSE <<>>,
         track  |-> track_index]

\* ------------------------------------------------------------------------
\* parse_file, the pure parts: chunk reading, merge, tempo timeline, conversion
\* ------------------------------------------------------------------------

MThd == <<77, 84, 104, 100>>
MTrk == <<77, 84, 114, 107>>

\* MidiHeader, and the one MidiParser::new() builds.
MidiHeader(format, tracks, ppqn) ==
    [format |-> format, tracks |-> tracks, ppqn |-> ppqn]
NewHeader == MidiHeader(0, 0, 0)

\* u16::from_be_bytes
U16FromBe(b) == b[1] * 256 + b[2]

\* What parse_file returns.
Ok == [kind |-> "Ok", what |-> "", track |-> 0]
Err(what, track) == [kind |-> "Err", what |-> what, track |-> track]
NoCall == [kind |-> "None", what |-> "", track |-> 0]

\* file.read_exact(buf) for a buffer of n bytes with the cursor at pos.
CanRead(bytes, pos, n) == pos + n <= Len(bytes)
ReadExact(bytes, pos, n) == SubSeq(bytes, pos + 1, pos + n)

\* The loop `for i in 0..self.header.tracks` reading the track chunks: the
\* track buffers read, or the error that ended the loop.
RECURSIVE ReadTracks(_, _, _, _, _)
ReadTracks(bytes, pos, i, tracks, acc) ==
    IF i >= tracks THEN [err |-> NoCall, all_track_data |-> acc]
    ELSE IF ~CanRead(bytes, pos, 4)
    THEN [err |-> Err("io: unexpected eof", i), all_track_data |-> <<>>]
    ELSE IF ReadExact(bytes, pos, 4) # MTrk
    THEN [err |-> Err("Expected MTrk", i), all_track_data |-> <<>>]
    ELSE IF ~CanRead(bytes, pos + 4, 4)
    THEN [err |-> Err("io: unexpected eof", i), all_track_data |-> <<>>]
    ELSE
    LET be           == ReadExact(bytes, pos + 4, 4)
        track_length == <<be[4], be[3], be[2], be[1]>>
    IN  IF ~IsSmall(track_length) \/ ~CanRead(bytes, pos + 8, NatOf(track_length))
        THEN [err |-> Err("io: unexpected eof", i), all_track_data |-> <<>>]
        ELSE ReadTracks(bytes, pos + 8 + NatOf(track_length), i + 1, tracks,
                        Append(acc, ReadExact(bytes, pos + 8, NatOf(track_length))))

\* A reader that takes the six header bytes whatever length the chunk
\* declares.
ReadFileAnyLength(file) ==
    LET bytes == file.bytes
        early(e) == [set_header |-> FALSE, header |-> NewHeader,
                     err |-> e, all_track_data |-> <<>>]
    IN  IF ~file.exists THEN early(Err("io: not found", 0))
        ELSE IF ~CanRead(bytes, 0, 4) THEN early(Err("io: unexpected eof", 0))
        ELSE IF ReadExact(bytes, 0, 4) # MThd THEN early(Err("no MThd", 0))
        ELSE IF ~CanRead(bytes, 4, 4) THEN early(Err("io: unexpected eof", 0))
        ELSE IF ~CanRead(bytes, 8, 6) THEN early(Err("io: unexpected eof", 0))
        ELSE
        LET header_data == ReadExact(bytes, 8, 6)
            hdr == MidiHeader(U16FromBe(SubSeq(header_data, 1, 2)),
                              U16FromBe(SubSeq(header_data, 3, 4)),
                              U16FromBe(SubSeq(header_data, 5, 6)))
            rt  == ReadTracks(bytes, 14, 0, hdr.tracks, <<>>)
        IN  [set_header |-> TRUE, header |-> hdr,
             err |-> rt.err, all_track_data |-> rt.all_track_data]

\* Lines 230-265 on a file (missing, or its bytes): whether self.header was
\* assigned and to what, and the track buffers or the error returned.
ReadFile(file) ==
    LET bytes == file.bytes
        early(e) == [set_header |-> FALSE, header |-> NewHeader,
                     err |-> e, all_track_data |-> <<>>]
    IN  IF ~file.exists THEN early(Err("io: not found", 0))
        ELSE IF ~CanRead(bytes, 0, 4) THEN early(Err("io: unexpected eof", 0))
        ELSE IF ReadExact(bytes, 0, 4) # MThd THEN early(Err("no MThd", 0))
        ELSE IF ~CanRead(bytes, 4, 4) THEN early(Err("io: unexpected eof", 0))
        ELSE IF ReadExact(bytes, 4, 4) # <<0, 0, 0, 6>>
        THEN early(Err("Unexpected MThd chunk length", 0))
        ELSE IF ~CanRead(bytes, 8, 6) THEN early(Err("io: unexpected eof", 0))
        ELSE
        LET header_data == ReadExact(bytes, 8, 6)
            hdr == MidiHeader(U16FromBe(SubSeq(header_data, 1, 2)),
                              U16FromBe(SubSeq(header_data, 3, 4)),
                              U16FromBe(SubSeq(header_data, 5, 6)))
            rt  == ReadTracks(bytes, 14, 0, hdr.tracks, <<>>)
        IN  [set_header |-> TRUE, header |-> hdr,
             err |-> rt.err, all_track_data |-> rt.all_track_data]

\* A slot of the parallel collect that no worker has filled yet.
Pending == [kind |-> "pending", events |-> <<>>, track |-> 0]

\* A collect that pushes each result as its worker finishes: the result
\* lands in the first slot still free.
PlaceInCompletionOrder(parsing_results, i, result) ==
    LET free == CHOOSE k \in 1..Len(parsing_results) :
                    /\ parsing_results[k] = Pending
                    /\ \A j \in 1..(k - 1) : parsing_results[j] # Pending
    IN  [parsing_results EXCEPT ![free] = result]

\* collect() of the indexed parallel iterator: the result of track i lands in
\* slot i, whichever worker finishes first.
PlaceResult(parsing_results, i, result) ==
    [parsing_results EXCEPT ![i + 1] = result]

\* The loop over parsing_results (lines 274-284): the first Err in slot
\* order ends it; otherwise every track's events, concatenated in slot order.
RECURSIVE CollectEvents(_)
CollectEvents(parsing_results) ==
    IF parsing_results = <<>> THEN [err |-> NoCall, temp_events |-> <<>>]
    ELSE LET result == Head(parsing_results)
         IN  IF result.kind = "err"
             THEN [err |-> Err("Running status without previous status", result.track),
                   temp_events |-> <<>>]
             ELSE LET rest == CollectEvents(Tail(parsing_results))
                  IN  [err |-> rest.err,
                       temp_events |-> IF rest.err = NoCall
                                       THEN result.events \o rest.temp_events
                                       ELSE <<>>]

\* An insertion that is not stable: e goes before the events of its tick.
InsertBeforeEqual(sorted, e) ==
    LET n == Cardinality({k \in 1..Len(sorted) :
                             LtLimbs(sorted[k].absolute_tick, e.absolute_tick)})
    IN  SubSeq(sorted, 1, n) \o <<e>> \o SubSeq(sorted, n + 1, Len(sorted))

\* par_sort_by_key(|e| e.absolute_tick): a stable sort, equal keys keep
\* their order: e goes after the events of its tick.
InsertStable(sorted, e) ==
    LET n == Cardinality({k \in 1..Len(sorted) :
                             LeLimbs(sorted[k].absolute_tick, e.absolute_tick)})
    IN  SubSeq(sorted, 1, n) \o <<e>> \o SubSeq(sorted, n + 1, Len(sorted))

RECURSIVE SortByTick(_)
SortByTick(temp_events) ==
    IF temp_events = <<>> THEN <<>>
    ELSE LET n == Len(temp_events)
         IN  InsertStable(SortByTick(SubSeq(temp_events, 1, n - 1)), temp_events[n])

DefaultTempoUs == 500000

\* tempo_to_tick_ns for ppqn # 0 (ppqn = 0 is a division by zero: a panic).
tempo_to_tick_ns(tempo_us, ppqn) ==
    DivSmall(Mul64(u64(tempo_us), u64(1000)).val, ppqn).q

TempoPoint(absolute_tick, absolute_ns, tick_ns) ==
    [absolute_tick |-> absolute_tick, absolute_ns |-> absolute_ns, tick_ns |-> tick_ns]

\* The locals of the timeline loop before its first pass (lines 305-315).
TimelineStart(ppqn) ==
    LET tick_ns == tempo_to_tick_ns(DefaultTempoUs, ppqn)
    IN  [tempo_timeline |-> <<TempoPoint(u64(0), u64(0), tick_ns)>>,
         last_tick      |-> u64(0),
         elapsed_ns     |-> u64(0),
         tick_ns        |-> tick_ns,
         overflow       |-> FALSE]

\* One pass of `for event in &temp_events` (lines 317-333).
TimelineStep(acc, event, ppqn) ==
    IF event.data.kind # "TempoChange" THEN acc
    ELSE LET delta_ticks == Sub64(event.absolute_tick, acc.last_tick)
             product     == Mul64(delta_ticks.val, acc.tick_ns)
             elapsed     == Add64(acc.elapsed_ns, product.val)
             tick_ns     == tempo_to_tick_ns(event.data.new_tempo_us, ppqn)
         IN  [tempo_timeline |-> Append(acc.tempo_timeline,
                                        TempoPoint(event.absolute_tick, elapsed.val, tick_ns)),
              last_tick      |-> event.absolute_tick,
              elapsed_ns     |-> elapsed.val,
              tick_ns        |-> tick_ns,
              overflow       |-> acc.overflow \/ delta_ticks.ovf \/ product.ovf \/ elapsed.ovf]

RECURSIVE BuildTimeline(_, _, _)
BuildTimeline(acc, temp_events, ppqn) ==
    IF temp_events = <<>> THEN acc
    ELSE BuildTimeline(TimelineStep(acc, Head(temp_events), ppqn), Tail(temp_events), ppqn)

\* tempo_timeline.partition_point(|p| p.absolute_tick <= tick): the timeline
\* is ordered by tick, so this is the number of its points at or before tick.
PartitionPoint(tempo_timeline, tick) ==
    Cardinality({k \in 1..Len(tempo_timeline) :
                    LeLimbs(tempo_timeline[k].absolute_tick, tick)})

MidiEvent(absolute_ns, status, data1, data2, track_index, sysex_data) ==
    [absolute_ns |-> absolute_ns, status |-> status, data1 |-> data1,
     data2 |-> data2, track_index |-> track_index, sysex_data |-> sysex_data]

\* The closure of the conversion (lines 339-370) without its match: the
\* nanoseconds of one event.
FinalNs(event, tempo_timeline) ==
    LET base_tempo_point      == tempo_timeline[PartitionPoint(tempo_timeline,
                                                               event.absolute_tick)]
        delta_ticks_from_base == Sub64(event.absolute_tick, base_tempo_point.absolute_tick)
        product               == Mul64(delta_ticks_from_base.val, base_tempo_point.tick_ns)
        final_ns              == Add64(base_tempo_point.absolute_ns, product.val)
    IN  [val |-> final_ns.val,
         ovf |-> delta_ticks_from_base.ovf \/ product.ovf \/ final_ns.ovf]

\* The match of the closure: Some(MidiEvent) as a one-element sequence, None
\* as the empty one.
ConvertEvent(event, tempo_timeline) ==
    LET final_ns == FinalNs(event, tempo_timeline).val
    IN  IF event.data.kind = "Midi"
        THEN <<MidiEvent(final_ns, event.data.status, event.data.data1,
                         event.data.data2, event.track_index, None)>>
        ELSE IF event.data.kind = "SysEx"
        THEN <<MidiEvent(final_ns, 240, 0, 0, event.track_index, Some(event.data.data))>>
        ELSE <<>>

\* into_par_iter().map(..).filter_map(..).collect(): the order of the input.
RECURSIVE ConvertAll(_, _)
ConvertAll(temp_events, tempo_timeline) ==
    IF temp_events = <<>> THEN <<>>
    ELSE ConvertEvent(Head(temp_events), tempo_timeline)
         \o ConvertAll(Tail(temp_events), tempo_timeline)

ConvertOverflows(temp_events, tempo_timeline) ==
    \E k \in 1..Len(temp_events) : FinalNs(temp_events[k], tempo_timeline).ovf

\* ------------------------------------------------------------------------
\* The files parse_file is called on
\* ------------------------------------------------------------------------

Be16(n) == <<n \div 256, n % 256>>
Be32(n) == <<0, 0>> \o Be16(n)

SmfHeader(format, tracks, ppqn) ==
    MThd \o Be32(6) \o Be16(format) \o Be16(tracks) \o Be16(ppqn)
TrackChunk(track_data) == MTrk \o Be32(Len(track_data)) \o track_data

\* Track bodies. Delta 480 is the VLQ 83 60.
\* tempo 1 000 000 at tick 480, end of track
Conductor == <<131, 96, 255, 81, 3, 15, 66, 64,  0, 255, 47, 0>>
\* note on at 0, note off at 480, note on at 960, end of track
Melody    == <<0, 144, 60, 64,  131, 96, 128, 60, 0,  131, 96, 144, 64, 64,
               0, 255, 47, 0>>
\* program change and note on at 0, running-status note at 480
Bass      == <<0, 192, 5,  0, 145, 36, 64,  131, 96, 36, 0>>
\* SysEx at 0, note on at 96, running-status note at 192
Solo      == <<0, 240, 126, 127, 247,  96, 144, 60, 64,  96, 60, 0>>
\* a data byte where the first status byte should be
Running1  == <<0, 60, 64>>
Running2  == <<0, 64, 64>>
\* tempo 0xFFFFFF at 0, notes at ticks 2^30 and 2^30 + 2^27
Long      == <<0, 255, 81, 3, 255, 255, 255,
               132, 128, 128, 128, 0, 144, 60, 64,
               192, 128, 128, 0, 128, 60, 0>>
\* tempo 0xFFFFFF at 0 and at tick 2^30, tempo 1 000 000 at 2^30 + 2^27
Tempi     == <<0, 255, 81, 3, 255, 255, 255,
               132, 128, 128, 128, 0, 255, 81, 3, 255, 255, 255,
               192, 128, 128, 0, 255, 81, 3, 15, 66, 64,  0, 255, 47, 0>>
\* a text meta event whose length VLQ decodes to 2^64 - 13
Wrap      == <<0, 255, 1, 129, 255, 255, 255, 255, 255, 255, 255, 255, 115>>
\* a terminated SysEx, a note, an empty terminated SysEx, a running-status
\* SysEx, and a SysEx that the end of the buffer cuts off
Dumps     == <<0, 240, 126, 247,  0, 144, 60, 64,  0, 240, 247,  0, 5, 247,
               0, 240, 1, 2>>
\* type 0x2F with a 3-byte payload, type 0x51 with none, a text event,
\* tempo 500 000, a note, end of track, and a note behind the end of track
Metas     == <<0, 255, 47, 3, 1, 2, 3,  0, 255, 81, 0,  0, 255, 1, 3, 65, 66, 67,
               0, 255, 81, 3, 7, 161, 32,  0, 144, 60, 64,  0, 255, 47, 0,
               0, 144, 62, 64>>
\* a note after the five-byte delta time 90 80 80 80 00, which is 2^32
Wide      == <<144, 128, 128, 128, 0,  144, 60, 64>>
\* one message of each channel status 0x80..0xE0, with running-status
\* repeats of the program change and of the channel pressure
Channels  == <<0, 128, 60, 0,  0, 144, 60, 64,  0, 160, 60, 10,  0, 176, 7, 100,
               0, 192, 5,  0, 6,  0, 208, 40,  0, 41,  0, 224, 0, 64,  0, 1, 2>>

File(bytes) == [exists |-> TRUE, bytes |-> bytes]
NoFile == [exists |-> FALSE, bytes |-> <<>>]

Paths == {"missing.mid", "riff.mid", "len7.mid", "cuthdr.mid", "song.mid",
          "solo.mid", "none.mid", "ppqn0.mid", "badtrk.mid", "cuttrk.mid",
          "runstat.mid", "long.mid", "wrap.mid", "biglen.mid",
          "tempi.mid"}

FileSystem ==
    [p \in Paths |->
        CASE p = "missing.mid" -> NoFile
          [] p = "riff.mid"    -> File(<<82, 73, 70, 70>> \o Be32(6) \o Be16(0) \o Be16(0) \o Be16(96))
          [] p = "len7.mid"    -> File(MThd \o Be32(7) \o Be16(0) \o Be16(0) \o Be16(96) \o <<0>>)
          [] p = "cuthdr.mid"  -> File(MThd \o Be32(6) \o <<0, 1, 0>>)
          [] p = "song.mid"    -> File(SmfHeader(1, 3, 480) \o TrackChunk(Conductor)
                                       \o TrackChunk(Melody) \o TrackChunk(Bass))
          [] p = "solo.mid"    -> File(SmfHeader(0, 1, 96) \o TrackChunk(Solo))
          [] p = "none.mid"    -> File(SmfHeader(0, 0, 96))
          [] p = "ppqn0.mid"   -> File(SmfHeader(0, 1, 0) \o TrackChunk(Solo))
          [] p = "badtrk.mid"  -> File(SmfHeader(0, 1, 24) \o <<77, 84, 114, 120>>
                                       \o Be32(Len(Solo)) \o Solo)
          [] p = "cuttrk.mid"  -> File(SmfHeader(1, 2, 48) \o TrackChunk(Melody)
                                       \o MTrk \o Be32(Len(Bass)) \o SubSeq(Bass, 1, 4))
          [] p = "runstat.mid" -> File(SmfHeader(1, 3, 480) \o TrackChunk(Melody)
                                       \o TrackChunk(Running1) \o TrackChunk(Running2))
          [] p = "long.mid"    -> File(SmfHeader(0, 1, 1) \o TrackChunk(Long))
          [] p = "wrap.mid"    -> File(SmfHeader(0, 1, 96) \o TrackChunk(Wrap))
          [] p = "biglen.mid"  -> File(MThd \o <<0, 1, 0, 6>> \o Be16(1) \o Be16(1) \o Be16(96)
                                       \o TrackChunk(Melody))
          [] p = "tempi.mid"   -> File(SmfHeader(0, 1, 1) \o TrackChunk(Tempi))]

\* Track buffers parse_track is tried on by itself: every byte string up to
\* MaxTrackLen over TrackBytes, and the track bodies of the files above.
MaxTrackLen == 4
TrackBytes == {0, 3, 47, 81, 129, 144, 192, 240, 247, 255}

RECURSIVE ByteStrings(_)
ByteStrings(n) ==
    IF n = 0 THEN {<<>>}
    ELSE LET shorter == ByteStrings(n - 1)
         IN  shorter \cup {Append(s, b) : s \in {t \in shorter : Len(t) = n - 1},
                                          b \in TrackBytes}

TrackInputs ==
    ByteStrings(MaxTrackLen)
        \cup {Conductor, Melody, Bass, Solo, Running1, Running2, Long, Wrap,
              Tempi, Channels, Dumps, Metas, Wide}

\* ------------------------------------------------------------------------
\* The parser instance and a call of parse_file in progress
\* ------------------------------------------------------------------------

VARIABLES
    checks,           \* whether the build panics on integer overflow (debug) or wraps (release)
    is_parsed,        \* MidiParser.is_parsed
    header,           \* MidiParser.header
    events,           \* MidiParser.events
    pc,               \* "idle", "decoding" (the track workers run), "panicked", "hung"
    path,             \* file_path of the call in progress or last made
    all_track_data,   \* parse_file's local: the track buffers
    workers,          \* the tracks whose parse_track has not finished yet
    parsing_results,  \* parse_file's local: the slots of the parallel collect
    temp_events,      \* parse_file's local, after the sort
    tempo_timeline,   \* parse_file's local
    ret,              \* what the last completed call returned
    before,           \* what the getters answered when the call was entered
    ever_ok,          \* whether some call on the instance has returned Ok
    trk               \* parse_track's locals, one loop pass at a time

vars == <<checks, is_parsed, header, events, pc, path, all_track_data, workers,
          parsing_results, temp_events, tempo_timeline, ret, before, ever_ok, trk>>

\* A getter that does not look at the parsed flag.
get_header_unguarded == Some(header)

\* The getters.
get_header == IF is_parsed THEN Some(header) ELSE None

get_events == events

\* One group per track of the header; an event whose track_index is not
\* below header.tracks goes to no group. Indices are 0-based.
get_track_event_indices ==
    [t \in 1..header.tracks |->
        LET idx == {k \in 0..(Len(events) - 1) : events[k + 1].track_index = t - 1}
        IN  [n \in 1..Cardinality(idx) |->
                CHOOSE k \in idx : Cardinality({j \in idx : j < k}) = n - 1]]

Observable ==
    [header |-> get_header, events |-> get_events, is_parsed |-> is_parsed]

ParserInit ==
    /\ is_parsed = FALSE
    /\ header = NewHeader
    /\ events = <<>>
    /\ pc = "idle"
    /\ path = ""
    /\ all_track_data = <<>>
    /\ workers = {}
    /\ parsing_results = <<>>
    /\ temp_events = <<>>
    /\ tempo_timeline = <<>>
    /\ ret = NoCall
    /\ before = [header |-> None, events |-> <<>>, is_parsed |-> FALSE]
    /\ ever_ok = FALSE

Init ==
    /\ checks \in BOOLEAN
    /\ ParserInit
    /\ trk = TrackStart(0, <<>>)

\* A parse_file that clears the stored events on entry, before the file is
\* opened.
ParseFileReadClearing(file_path) ==
    /\ pc = "idle"
    /\ LET rd == ReadFile(FileSystem[file_path])
       IN  /\ path' = file_path
           /\ before' = Observable
           /\ events' = <<>>
           /\ header' = IF rd.set_header THEN rd.header ELSE header
           /\ temp_events' = <<>>
           /\ tempo_timeline' = <<>>
           /\ IF rd.err # NoCall
              THEN /\ ret' = rd.err
                   /\ pc' = "idle"
                   /\ all_track_data' = <<>>
                   /\ workers' = {}
                   /\ parsing_results' = <<>>
              ELSE /\ ret' = NoCall
                   /\ pc' = "decoding"
                   /\ all_track_data' = rd.all_track_data
                   /\ workers' = 0..(Len(rd.all_track_data) - 1)
                   /\ parsing_results' = [k \in 1..Len(rd.all_track_data) |-> Pending]
    /\ UNCHANGED <<checks, is_parsed, ever_ok, trk>>

\* parse_file up to the dispatch of the track workers (lines 229-272): an
\* error return, or the workers started. self.header is assigned as soon as
\* the header chunk is read.
ParseFileRead(file_path) ==
    /\ pc = "idle"
    /\ LET rd == ReadFile(FileSystem[file_path])
       IN  /\ path' = file_path
           /\ before' = Observable
           /\ header' = IF rd.set_header THEN rd.header ELSE header
           /\ temp_events' = <<>>
           /\ tempo_timeline' = <<>>
           /\ IF rd.err # NoCall
              THEN /\ ret' = rd.err
                   /\ pc' = "idle"
                   /\ all_track_data' = <<>>
                   /\ workers' = {}
                   /\ parsing_results' = <<>>
              ELSE /\ ret' = NoCall
                   /\ pc' = "decoding"
                   /\ all_track_data' = rd.all_track_data
                   /\ workers' = 0..(Len(rd.all_track_data) - 1)
                   /\ parsing_results' = [k \in 1..Len(rd.all_track_data) |-> Pending]
    /\ UNCHANGED <<checks, is_parsed, events, ever_ok, trk>>

\* One worker of the parallel map runs parse_track on track i to its end;
\* the workers finish in any order.
DecodeTrack(i) ==
    /\ pc = "decoding"
    /\ i \in workers
    /\ workers' = workers \ {i}
    /\ parsing_results' =
           PlaceResult(parsing_results, i, parse_track(i, all_track_data[i + 1], checks))
    /\ UNCHANGED <<checks, is_parsed, header, events, pc, path, all_track_data,
                   temp_events, tempo_timeline, ret, before, ever_ok, trk>>

\* Events appended to the stored ones, with no clear before.
ExtendEvents(old, converted) == old \o converted

\* self.events.clear() and, at the end, self.events = ...collect(): the
\* events stored after a call that returns Ok.
ReplaceEvents(old, converted) == converted

\* parse_file from the end of the parallel map (lines 272-376). A worker
\* that never returns keeps the call from returning; a worker's panic is
\* the call's panic. A panic after line 294 leaves the events cleared.
ParseFileFinish ==
    /\ pc = "decoding"
    /\ workers = {}
    /\ LET kinds   == {parsing_results[k].kind : k \in 1..Len(parsing_results)}
           merged  == CollectEvents(parsing_results)
           sorted  == SortByTick(merged.temp_events)
           ppqn    == header.ppqn
           tl      == BuildTimeline(TimelineStart(ppqn), sorted, ppqn)
           stop(p, e, t, l) ==
               /\ pc' = p
               /\ events' = e
               /\ temp_events' = t
               /\ tempo_timeline' = l
               /\ UNCHANGED <<is_parsed, ret, ever_ok>>
       IN  IF "hang" \in kinds THEN stop("hung", events, <<>>, <<>>)
           ELSE IF "panic" \in kinds THEN stop("panicked", events, <<>>, <<>>)
           ELSE IF merged.err # NoCall
           THEN /\ ret' = merged.err
                /\ pc' = "idle"
                /\ UNCHANGED <<is_parsed, events, temp_events, tempo_timeline, ever_ok>>
           ELSE IF ppqn = 0 THEN stop("panicked", <<>>, sorted, <<>>)
           ELSE IF checks /\ tl.overflow THEN stop("panicked", <<>>, sorted, <<>>)
           ELSE IF checks /\ ConvertOverflows(sorted, tl.tempo_timeline)
           THEN stop("panicked", <<>>, sorted, tl.tempo_timeline)
           ELSE /\ events' = ReplaceEvents(events, ConvertAll(sorted, tl.tempo_timeline))
                /\ is_parsed' = TRUE
                /\ ret' = Ok
                /\ pc' = "idle"
                /\ ever_ok' = TRUE
                /\ temp_events' = sorted
                /\ tempo_timeline' = tl.tempo_timeline
    /\ UNCHANGED <<checks, header, path, all_track_data, workers, parsing_results,
                   before, trk>>

Next ==
    \/ \E file_path \in Paths : ParseFileRead(file_path)
    \/ \E i \in workers : DecodeTrack(i)
    \/ ParseFileFinish

Spec == Init /\ [][Next]_vars

\* parse_track by itself, on every track buffer of TrackInputs, one pass of
\* its outer loop per step.
InitTrack ==
    /\ checks \in BOOLEAN
    /\ ParserInit
    /\ \E track_data \in TrackInputs : trk = TrackStart(0, track_data)

TrackPass ==
    /\ trk.at = "loop"
    /\ trk' = TrackIter(trk, checks)
    /\ UNCHANGED <<checks, is_parsed, header, events, pc, path, all_track_data, workers,
                   parsing_results, temp_events, tempo_timeline, ret, before, ever_ok>>

NextTrack == TrackPass

SpecTrack == InitTrack /\ [][NextTrack]_vars

\* ------------------------------------------------------------------------
\* Properties
\* ------------------------------------------------------------------------

ReturnedOk == pc = "idle" /\ ret = Ok
ReturnedErr == pc = "idle" /\ ret.kind = "Err"

IsPlayable(e) == e.data.kind # "TempoChange"
IsTempoChange(e) == e.data.kind = "TempoChange"

\* The sorted intermediate events that yield a playable event, in order.
PlayableTemp == SelectSeq(temp_events, IsPlayable)

\* events[k] is the playable event made from PlayableTemp[k].
EventsMatchTemp ==
    /\ Len(events) = Len(PlayableTemp)
    /\ \A k \in 1..Len(events) :
          /\ events[k].track_index = PlayableTemp[k].track_index
          /\ IF PlayableTemp[k].data.kind = "Midi"
             THEN /\ events[k].status = PlayableTemp[k].data.status
                  /\ events[k].data1 = PlayableTemp[k].data.data1
                  /\ events[k].data2 = PlayableTemp[k].data.data2
                  /\ events[k].sysex_data = None
             ELSE /\ events[k].status = 240
                  /\ events[k].sysex_data = Some(PlayableTemp[k].data.data)

\* parse_file on a fresh instance, in one piece.
FreshParse(file_path) ==
    LET rd      == ReadFile(FileSystem[file_path])
        results == [k \in 1..Len(rd.all_track_data) |->
                       parse_track(k - 1, rd.all_track_data[k], checks)]
        sorted  == SortByTick(CollectEvents(results).temp_events)
        tl      == BuildTimeline(TimelineStart(rd.header.ppqn), sorted, rd.header.ppqn)
    IN  [header |-> Some(rd.header),
         events |-> ReplaceEvents(<<>>, ConvertAll(sorted, tl.tempo_timeline))]

\* C1: a call that returns an error leaves what the getters answer (header,
\* events, parsed flag) either exactly as it was when the call was entered,
\* or replaced as a whole: the header is another one and the events of the
\* earlier file are gone. It never shows another header over the earlier
\* file's events.
C1_FailedParseIsAtomic ==
    ReturnedErr =>
        \/ Observable = before
        \/ /\ get_header # before.header
           /\ before.events = <<>> \/ get_events # before.events

\* C2: while no call has returned Ok, get_header answers None and
\* get_events is empty; and the parsed flag goes from false to true only in
\* the step in which a call returns Ok.
C2_UnparsedUntilOk ==
    /\ [](~ever_ok => get_header = None /\ get_events = <<>>)
    /\ [][(~is_parsed /\ is_parsed') => (pc = "decoding" /\ pc' = "idle" /\ ret' = Ok)]_vars

\* C2 witness: a call has failed after its header chunk was read, on an
\* instance that never parsed a file.
C2_Witness ==
    ReturnedErr /\ ~ever_ok /\ header # NewHeader

\* C3: after a call that returns Ok the events are non-decreasing in
\* absolute_ns.
C3_Monotonic ==
    ReturnedOk =>
        \A i, j \in 1..Len(events) :
            i < j => LeLimbs(events[i].absolute_ns, events[j].absolute_ns)

\* C4: after a call that returns Ok, two playable events of the same absolute
\* tick stand in the order of their track indices, and the events of one
\* track stand in the order parse_track decoded them, whatever order the
\* workers finished in.
C4_TieOrder ==
    ReturnedOk =>
        /\ EventsMatchTemp
        /\ \A a, b \in 1..Len(PlayableTemp) :
              (a < b /\ PlayableTemp[a].absolute_tick = PlayableTemp[b].absolute_tick)
                  => PlayableTemp[a].track_index <= PlayableTemp[b].track_index
        /\ \A t \in 0..(Len(all_track_data) - 1) :
              LET OfTrack(e) == e.track_index = t
              IN  SelectSeq(PlayableTemp, OfTrack)
                      = SelectSeq(parse_track(t, all_track_data[t + 1], checks).events,
                                  IsPlayable)

\* C4 witness: three playable events of one tick, the first of a lower track
\* than the other two, which are of the same track.
C4_Witness ==
    /\ ReturnedOk
    /\ \E a, b, c \in 1..Len(PlayableTemp) :
          /\ a < b /\ b < c
          /\ PlayableTemp[a].absolute_tick = PlayableTemp[b].absolute_tick
          /\ PlayableTemp[b].absolute_tick = PlayableTemp[c].absolute_tick
          /\ PlayableTemp[a].track_index < PlayableTemp[b].track_index
          /\ PlayableTemp[b].track_index = PlayableTemp[c].track_index

\* C5: with ppqn 480 and one tempo change, to 1 000 000 at tick 480, a
\* playable event at tick 960 has absolute_ns 1 500 000 000.
C5_TempoExample ==
    (/\ ReturnedOk
     /\ header.ppqn = 480
     /\ EventsMatchTemp
     /\ SelectSeq(temp_events, IsTempoChange)
            = <<TempEvent(u64(480), 0, TempoChangeData(1000000))>>)
        => \A k \in 1..Len(events) :
               PlayableTemp[k].absolute_tick = u64(960)
                   => events[k].absolute_ns = u64(1500000000)

\* C6: between calls, every index of group i is of an event of track i, the
\* groups are pairwise disjoint, and together they are 0..len(events)-1.
C6_GroupsPartition ==
    pc = "idle" =>
        LET groups == get_track_event_indices
            Members(t) == {groups[t][n] : n \in 1..Len(groups[t])}
        IN  /\ \A t \in 1..Len(groups) :
                  \A k \in Members(t) : events[k + 1].track_index = t - 1
            /\ \A t, u \in 1..Len(groups) : t # u => Members(t) \cap Members(u) = {}
            /\ UNION {Members(t) : t \in 1..Len(groups)} = 0..(Len(events) - 1)

\* C7: after a call that returns Ok on an instance that had already parsed a
\* file, header and events are those a fresh instance gets from the file of
\* this call alone.
C7_ReparseReplaces ==
    (ReturnedOk /\ before.is_parsed) =>
        /\ get_header = FreshParse(path).header
        /\ get_events = FreshParse(path).events

\* C7 witness: a second file was parsed over a first one with other events
\* and another header.
C7_Witness ==
    /\ ReturnedOk
    /\ before.is_parsed
    /\ before.events # <<>>
    /\ events # <<>>
    /\ events # before.events
    /\ get_header # before.header

\* The status position of the pass that starts from st: the index after the
\* delta time.
StatusPos(st) == ReadVlq(st.data, st.index, u32(0)).index

\* A pass of the outer loop starts from st and reads a status position that
\* holds a byte with its high bit clear.
DataByteAtStatus(st) ==
    /\ st.at = "loop"
    /\ st.index < Len(st.data)
    /\ <<st.index, st.last_status>> \notin st.seen
    /\ StatusPos(st) < Len(st.data)
    /\ At(st.data, StatusPos(st)) < 128

\* What a pass under running status comes to: no error, the remembered
\* status kept, and the byte at the status position read as data: the first
\* data byte of a channel message with the remembered status (emitted when
\* the bytes it needs are there), the first byte of the SysEx data, or the
\* one byte skipped for another 0xF* status.
RunningStatusUsed(st, nx) ==
    LET p  == StatusPos(st)
        b  == At(st.data, p)
        s  == st.last_status[1]
        n  == Len(st.track_events)
        needs == IF HighNibble(s) = 192 \/ HighNibble(s) = 208 THEN 1 ELSE 2
    IN  /\ nx.at # "err"
        /\ nx.last_status = st.last_status
        /\ HighNibble(s) # 240 =>
              IF p + needs <= Len(st.data)
              THEN /\ nx.at = "loop"
                   /\ nx.index = p + needs
                   /\ Len(nx.track_events) = n + 1
                   /\ nx.track_events[n + 1].data.kind = "Midi"
                   /\ nx.track_events[n + 1].data.status = s
                   /\ nx.track_events[n + 1].data.data1 = b
              ELSE nx.at = "ok" /\ nx.track_events = st.track_events
        /\ s = 240 =>
              /\ Len(nx.track_events) = n + 1
              /\ nx.track_events[n + 1].data.kind = "SysEx"
              /\ nx.track_events[n + 1].data.data[1] = b
        /\ (HighNibble(s) = 240 /\ s # 240 /\ s # 255) =>
              nx.index = p + 1 /\ nx.track_events = st.track_events

\* C8: a byte with its high bit clear at the first status position of a
\* track makes parse_track return Err; at a later status position, after an
\* explicit status byte, the pass does not fail and decodes with the
\* remembered status, the byte being read as data. Nothing is remembered
\* exactly in the first pass.
C8_RunningStatus ==
    [][/\ (trk.at = "loop" /\ trk.index < Len(trk.data))
            => (trk.last_status = None <=> trk.seen = {})
       /\ DataByteAtStatus(trk) =>
            IF trk.last_status = None
            THEN trk'.at = "err"
            ELSE RunningStatusUsed(trk, trk')]_vars

\* C8 witness: the pass that last started read a data byte at its status
\* position under a remembered channel status, and emitted the event.
C8_Witness ==
    /\ trk.at = "loop"
    /\ Len(trk.track_events) >= 2
    /\ \E h \in trk.seen :
          /\ \A g \in trk.seen : g[1] <= h[1]
          /\ h[2] # None
          /\ HighNibble(h[2][1]) # 240
          /\ LET p == ReadVlq(trk.data, h[1], u32(0)).index
             IN  /\ p < Len(trk.data)
                 /\ At(trk.data, p) < 128
                 /\ trk.track_events[Len(trk.track_events)].data.data1 = At(trk.data, p)

\* C9: a call of parse_file ends by returning: it neither panics nor runs
\* for ever.
C9_AlwaysReturns ==
    pc \notin {"panicked", "hung"}

\* The tracks whose decode returned Err in the call last made.
FailedTracks ==
    {parsing_results[k].track :
        k \in {j \in 1..Len(parsing_results) : parsing_results[j].kind = "err"}}

\* C10: when tracks failed to decode, the call returns the error of the
\* failing track of lowest index, whatever order the workers finished in,
\* and nothing decoded is kept: events and parsed flag are as before the
\* call and the merged events are dropped.
C10_FirstTrackErrorWins ==
    (pc = "idle" /\ FailedTracks # {}) =>
        /\ ret.kind = "Err"
        /\ ret.what = "Running status without previous status"
        /\ \A t \in FailedTracks : ret.track <= t
        /\ ret.track \in FailedTracks
        /\ events = before.events
        /\ is_parsed = before.is_parsed
        /\ temp_events = <<>>

\* C10 witness: two tracks failed and a track before them decoded events.
C10_Witness ==
    /\ pc = "idle"
    /\ Cardinality(FailedTracks) >= 2
    /\ \E k \in 1..Len(parsing_results) :
          /\ parsing_results[k].kind = "ok"
          /\ parsing_results[k].events # <<>>
          /\ \A t \in FailedTracks : parsing_results[k].track < t

\* C11: a header chunk whose declared length is not 6 makes parse_file return
\* the chunk-length error with no track chunk read: no track buffer exists,
\* no worker was started, and the header the getter answers is the one it
\* answered before the call.
HeaderLengthNotSix ==
    /\ path # ""
    /\ LET file == FileSystem[path]
       IN  /\ file.exists
           /\ Len(file.bytes) >= 8
           /\ SubSeq(file.bytes, 1, 4) = MThd
           /\ SubSeq(file.bytes, 5, 8) # <<0, 0, 0, 6>>

C11_HeaderLengthChecked ==
    HeaderLengthNotSix =>
        /\ pc = "idle"
        /\ ret = Err("Unexpected MThd chunk length", 0)
        /\ all_track_data = <<>>
        /\ workers = {}
        /\ parsing_results = <<>>
        /\ Observable = before

\* A file with a well-formed track chunk behind the bad header has been
\* turned down after a successful parse of another file.
C11_Witness ==
    /\ path = "biglen.mid"
    /\ ret = Err("Unexpected MThd chunk length", 0)
    /\ before.is_parsed
    /\ Len(before.events) > 0

\* A pass of the outer loop starts from st and finds a byte at its status
\* position.
PassWithStatus(st) ==
    /\ st.at = "loop"
    /\ st.index < Len(st.data)
    /\ <<st.index, st.last_status>> \notin st.seen
    /\ StatusPos(st) < Len(st.data)

\* The status that pass decodes with (0 when a data byte stands there and
\* nothing is remembered), and the index of the first byte after the status.
StatusOf(st) ==
    LET byte == At(st.data, StatusPos(st))
    IN  IF byte >= 128 THEN byte
        ELSE IF st.last_status # None THEN st.last_status[1] ELSE 0

DataPos(st) ==
    IF At(st.data, StatusPos(st)) >= 128 THEN StatusPos(st) + 1 ELSE StatusPos(st)

\* The data bytes of a channel message.
DataBytes(status) == IF HighNibble(status) \in {192, 208} THEN 1 ELSE 2

\* C12: a pass that decodes a channel message (status 0x80..0xEF) whose data
\* bytes are in the buffer emits one Midi event with data1 the byte after
\* the status and data2 the byte after that, or 0 and no second byte read
\* when the high nibble is 0xC0 or 0xD0; the next pass starts, and so reads
\* its delta time, at the byte right after the one or two data bytes.
C12_ChannelDataBytes ==
    [][(/\ PassWithStatus(trk)
        /\ StatusOf(trk) >= 128
        /\ HighNibble(StatusOf(trk)) # 240
        /\ DataPos(trk) + DataBytes(StatusOf(trk)) <= Len(trk.data))
       => LET d == DataPos(trk)
              s == StatusOf(trk)
              n == DataBytes(s)
          IN  /\ trk'.at = "loop"
              /\ trk'.index = d + n
              /\ trk'.track_events =
                     Append(trk.track_events,
                            TempEvent(trk'.absolute_tick, trk.track_index,
                                      MidiData(s, At(trk.data, d),
                                               IF n = 2 THEN At(trk.data, d + 1) ELSE 0)))]_vars

\* C12 witness: a track has been decoded to its end in which a channel
\* pressure message taken under running status (one data byte, data2 0) is
\* followed by a pitch bend with both of its data bytes.
C12_Witness ==
    /\ trk.at = "ok"
    /\ \E k \in 1..(Len(trk.track_events) - 1) :
          LET a == trk.track_events[k].data
              b == trk.track_events[k + 1].data
          IN  /\ a.kind = "Midi" /\ a.status = 208 /\ a.data1 = 41 /\ a.data2 = 0
              /\ b.kind = "Midi" /\ b.status = 224 /\ b.data1 = 0 /\ b.data2 = 64

\* The index of the first 0xF7 at or after index d, Len(data) if none.
FirstF7(data, d) ==
    LET hits == {q \in d..(Len(data) - 1) : At(data, q) = 247}
    IN  IF hits = {} THEN Len(data)
        ELSE CHOOSE q \in hits : \A r \in hits : q <= r

\* C13: a pass that decodes a SysEx message (status 0xF0) does not fail and
\* emits one SysEx event: with no 0xF7 from the byte after the status on,
\* its data is every byte from there to the end of the buffer and the index
\* stands at the end; with one, its data is every byte up to and including
\* the first 0xF7 and the next pass starts right after that byte.
C13_SysEx ==
    [][(PassWithStatus(trk) /\ StatusOf(trk) = 240)
       => LET d    == DataPos(trk)
              q    == FirstF7(trk.data, d)
              stop == IF q = Len(trk.data) THEN q ELSE q + 1
          IN  /\ trk'.at = "loop"
              /\ trk'.index = stop
              /\ trk'.track_events =
                     Append(trk.track_events,
                            TempEvent(trk'.absolute_tick, trk.track_index,
                                      SysExData(SubSeq(trk.data, d + 1, stop))))]_vars

\* C13 witness: a track has been decoded to its end, without error, whose
\* first event is a SysEx ended by 0xF7, whose next event is the note that
\* follows the 0xF7, and whose last event is a SysEx holding the bytes up to
\* the end of the buffer, none of them 0xF7.
C13_Witness ==
    /\ trk.at = "ok"
    /\ Len(trk.track_events) >= 3
    /\ trk.track_events[1].data = SysExData(<<126, 247>>)
    /\ trk.track_events[2].data = MidiData(144, 60, 64)
    /\ LET last == trk.track_events[Len(trk.track_events)].data
       IN  /\ last.kind = "SysEx"
           /\ last.data = <<1, 2>>
           /\ last.data = SubSeq(trk.data, Len(trk.data) - 1, Len(trk.data))

\* An Err from parse_track is the running-status one: the byte the index
\* stands at is a data byte at the first status position of the track.
ErrOnlyForRunningStatus ==
    trk.at = "err" =>
        /\ trk.last_status = None
        /\ trk.index < Len(trk.data)
        /\ At(trk.data, trk.index) < 128

\* A pass that ends the loop adds no event to the completed ones.
BreakKeepsCompletedEvents ==
    [][trk'.at # "loop" => trk'.track_events = trk.track_events]_vars

\* C14: parse_track ends by returning, and returns Err only when the first
\* status position of the track holds a data byte (running status with
\* nothing remembered); on every other content it returns Ok.
C14_OnlyRunningStatusFails ==
    /\ trk.at \in {"loop", "ok", "err"}
    /\ ErrOnlyForRunningStatus

\* A pass decodes a meta event (status 0xFF) that lies inside the buffer:
\* its type byte, its length VLQ and as many payload bytes as it declares.
MetaLength(st) == ReadVlq(st.data, DataPos(st) + 1, u64(0))

MetaInBuffer(st) ==
    /\ PassWithStatus(st)
    /\ StatusOf(st) = 255
    /\ DataPos(st) < Len(st.data)
    /\ LET stop == Add64(u64(MetaLength(st).index), MetaLength(st).val)
       IN  ~stop.ovf /\ LeLimbs(stop.val, u64(Len(st.data)))

\* C15: of a meta event that lies inside the buffer, type 0x2F with length 0
\* ends the decoding of the track with the events emitted so far; type 0x51
\* with length 3 emits one tempo change whose value is the three payload
\* bytes read big-endian, and the next pass starts after them; every other
\* one, 0x51 and 0x2F with another length among them, emits nothing and the
\* next pass starts at the byte right after the payload.
C15_MetaDispatch ==
    [][MetaInBuffer(trk)
       => LET meta_type == At(trk.data, DataPos(trk))
              payload   == MetaLength(trk).index
              length    == NatOf(MetaLength(trk).val)
          IN  IF meta_type = 47 /\ length = 0
              THEN /\ trk'.at = "ok"
                   /\ trk'.track_events = trk.track_events
              ELSE IF meta_type = 81 /\ length = 3
              THEN /\ trk'.at = "loop"
                   /\ trk'.index = payload + 3
                   /\ trk'.track_events =
                          Append(trk.track_events,
                                 TempEvent(trk'.absolute_tick, trk.track_index,
                                           TempoChangeData(At(trk.data, payload) * 65536
                                                           + At(trk.data, payload + 1) * 256
                                                           + At(trk.data, payload + 2))))
              ELSE /\ trk'.at = "loop"
                   /\ trk'.index = payload + length
                   /\ trk'.track_events = trk.track_events]_vars

\* C15 witness: decoding has ended at an end-of-track event with bytes of a
\* further note still behind it; the track began with a type 0x2F event of
\* length 3 and a type 0x51 event of length 0, neither of which ended the
\* track or emitted anything, and the tempo change emitted is the 24-bit
\* value 0x07A120 of its payload.
C15_Witness ==
    /\ trk.at = "ok"
    /\ Len(trk.data) > 11
    /\ SubSeq(trk.data, 1, 11) = <<0, 255, 47, 3, 1, 2, 3, 0, 255, 81, 0>>
    /\ trk.index + 4 < Len(trk.data)
    /\ Len(trk.track_events) = 2
    /\ trk.track_events[1].data = TempoChangeData(500000)
    /\ trk.track_events[2].data = MidiData(144, 60, 64)

\* The full base-128 value of the delta-time VLQ a pass from st reads, and a
\* tick count, both on 16 bytes, where neither the VLQs of the track inputs
\* nor their sums lose a bit.
FullDelta(st) == ReadVlq(st.data, st.index, LimbsOf(0, 16)).val

Wide128(a) == a \o LimbsOf(0, 16 - Len(a))

\* C16: in every pass the tick count grows by the full base-128 value of the
\* delta-time VLQ the pass reads, whatever its length in bytes, and an event
\* emitted in the pass carries the tick count so reached.
C16_FullDelta ==
    [][(/\ trk.at = "loop"
        /\ trk.index < Len(trk.data)
        /\ <<trk.index, trk.last_status>> \notin trk.seen)
       => /\ Wide128(trk'.absolute_tick)
                = SubSeq(AddLimbs(Wide128(trk.absolute_tick), FullDelta(trk), 0), 1, 16)
          /\ Len(trk'.track_events) > Len(trk.track_events)
                => trk'.track_events[Len(trk'.track_events)].absolute_tick
                       = trk'.absolute_tick]_vars

\* The same for the delta times of at most four bytes (values below 2^28),
\* which is all a Standard MIDI File uses.
DeltaOfFourBytes ==
    [][(/\ trk.at = "loop"
        /\ trk.index < Len(trk.data)
        /\ <<trk.index, trk.last_status>> \notin trk.seen
        /\ StatusPos(trk) - trk.index <= 4)
       => Wide128(trk'.absolute_tick)
              = SubSeq(AddLimbs(Wide128(trk.absolute_tick), FullDelta(trk), 0), 1, 16)]_vars

\* The tempo changes among the sorted intermediate events, in order.
TempoChanges == SelectSeq(temp_events, IsTempoChange)

\* a + d * t with no bit lost, on 16 bytes, for u64 a, d and t.
ExactAddMul(a, d, t) == SubSeq(AddLimbs(Wide128(a), MulLimbs(d, t), 0), 1, 16)

\* C17: after a successful parse the tempo timeline starts with the point
\* (tick 0, ns 0, tick_ns of tempo 500 000) and has one further point per
\* tempo change, in the order of the sorted events and at their ticks;
\* ticks and nanoseconds do not decrease along it, and each later point's
\* nanoseconds are the previous point's plus the tick difference times the
\* previous point's tick_ns.
C17_Timeline ==
    ReturnedOk =>
        /\ Len(tempo_timeline) = 1 + Len(TempoChanges)
        /\ tempo_timeline[1]
               = TempoPoint(u64(0), u64(0), tempo_to_tick_ns(DefaultTempoUs, header.ppqn))
        /\ \A k \in 1..Len(TempoChanges) :
              /\ tempo_timeline[k + 1].absolute_tick = TempoChanges[k].absolute_tick
              /\ tempo_timeline[k + 1].tick_ns
                     = tempo_to_tick_ns(TempoChanges[k].data.new_tempo_us, header.ppqn)
        /\ \A k \in 1..(Len(tempo_timeline) - 1) :
              LET p == tempo_timeline[k]
                  q == tempo_timeline[k + 1]
              IN  /\ LeLimbs(p.absolute_tick, q.absolute_tick)
                  /\ LeLimbs(p.absolute_ns, q.absolute_ns)
                  /\ Wide128(q.absolute_ns)
                         = ExactAddMul(p.absolute_ns,
                                       Sub64(q.absolute_tick, p.absolute_tick).val,
                                       p.tick_ns)

\* The same with the nanoseconds taken as the code's u64 arithmetic gives
\* them, and no claim that they do not decrease.
TimelineModulo ==
    ReturnedOk =>
        /\ Len(tempo_timeline) = 1 + Len(TempoChanges)
        /\ tempo_timeline[1]
               = TempoPoint(u64(0), u64(0), tempo_to_tick_ns(DefaultTempoUs, header.ppqn))
        /\ \A k \in 1..(Len(tempo_timeline) - 1) :
              LET p == tempo_timeline[k]
                  q == tempo_timeline[k + 1]
              IN  /\ q.absolute_tick = TempoChanges[k].absolute_tick
                  /\ LeLimbs(p.absolute_tick, q.absolute_tick)
                  /\ q.absolute_ns
                         = SubSeq(ExactAddMul(p.absolute_ns,
                                              Sub64(q.absolute_tick, p.absolute_tick).val,
                                              p.tick_ns), 1, 8)

\* The last point of the timeline whose tick is at or before tick, as an
\* index; 0 if there is none.
LastPointAtOrBefore(tick) ==
    LET at == {j \in 1..Len(tempo_timeline) :
                  LeLimbs(tempo_timeline[j].absolute_tick, tick)}
    IN  IF at = {} THEN 0 ELSE CHOOSE j \in at : \A i \in at : i <= j

\* C18: after a successful parse the events are, in order, one playable
\* event per Midi or SysEx event of the sorted intermediate sequence and
\* none for a tempo change; for each of them a timeline point at or before
\* its tick exists, and its absolute_ns is the last such point's
\* nanoseconds plus the ticks since that point times that point's tick_ns.
C18_EventTimes ==
    ReturnedOk =>
        /\ EventsMatchTemp
        /\ \A k \in 1..Len(events) :
              LET tick == PlayableTemp[k].absolute_tick
                  j    == LastPointAtOrBefore(tick)
              IN  /\ j # 0
                  /\ Wide128(events[k].absolute_ns)
                         = ExactAddMul(tempo_timeline[j].absolute_ns,
                                       Sub64(tick, tempo_timeline[j].absolute_tick).val,
                                       tempo_timeline[j].tick_ns)

\* The same with the nanoseconds taken as the code's u64 arithmetic gives
\* them.
EventTimesModulo ==
    ReturnedOk =>
        /\ EventsMatchTemp
        /\ \A k \in 1..Len(events) :
              LET tick == PlayableTemp[k].absolute_tick
                  j    == LastPointAtOrBefore(tick)
              IN  /\ j # 0
                  /\ events[k].absolute_ns
                         = SubSeq(ExactAddMul(tempo_timeline[j].absolute_ns,
                                              Sub64(tick, tempo_timeline[j].absolute_tick).val,
                                              tempo_timeline[j].tick_ns), 1, 8)

\* C19: every pass of the outer loop leaves the index greater than it found
\* it and not beyond the length of the buffer, and no pass is ever repeated
\* from the same index: parse_track terminates.
C19_IndexAdvances ==
    [][(trk.at = "loop" /\ trk.index < Len(trk.data))
       => /\ trk'.index > trk.index
          /\ trk'.index <= Len(trk.data)
          /\ trk'.at # "hang"]_vars

\* A pass from st decodes a meta event whose index + length does not fit
\* a usize.
MetaLengthWraps(st) ==
    /\ PassWithStatus(st)
    /\ StatusOf(st) = 255
    /\ DataPos(st) < Len(st.data)
    /\ Add64(u64(MetaLength(st).index), MetaLength(st).val).ovf

\* The same for every pass but those.
IndexAdvancesUnlessWrap ==
    [][(/\ trk.at = "loop"
        /\ trk.index < Len(trk.data)
        /\ <<trk.index, trk.last_status>> \notin trk.seen
        /\ ~MetaLengthWraps(trk))
       => /\ trk'.index > trk.index
          /\ trk'.index <= Len(trk.data)
          /\ trk'.at # "hang"]_vars

\* C20: a call of parse_file that returns an error, at whichever step,
\* leaves the event sequence and the parsed flag as they were when the call
\* was entered.
C20_ErrorKeepsEvents ==
    ReturnedErr =>
        /\ events = before.events
        /\ is_parsed = before.is_parsed

\* C20 witness: on an instance that holds the events of a successful parse,
\* a call has failed in the decoding of a track, the last step that can
\* fail, and the events are those it held.
C20_Witness ==
    /\ ReturnedErr
    /\ ret.what = "Running status without previous status"
    /\ before.is_parsed
    /\ Len(before.events) > 0
    /\ events = before.events
    /\ is_parsed

\* A call has failed with the given error on an instance that holds events.
ErrorStepSeen(what) == ReturnedErr /\ ret.what = what /\ Len(before.events) > 0

====
